---------------------------- MODULE Spec2Model ----------------------------
(***************************************************************************)
(* Model of data_loaders.py: load_data_from_library(team_folder,           *)
(* file_name, date_col) searches three candidate paths under               *)
(* DATA_LIBRARY_PATH and reads the first one that exists with              *)
(* pandas.read_csv, returning the DataFrame, or None when no candidate     *)
(* exists or when reading raises.                                          *)
(*                                                                         *)
(* A Python str is a sequence of tokens: "/" is the path separator and     *)
(* every other token stands for a run of characters that holds no          *)
(* separator.  The text of a CSV cell is a sequence of one-character       *)
(* tokens.                                                                 *)
(***************************************************************************)
EXTENDS Integers, Sequences, FiniteSets, TLC

VARIABLES
    DATA_LIBRARY_PATH,  \* the module global of line 9
    fs,                 \* the filesystem: path -> entry
    fsChanges,          \* history: how many times another actor changed fs
    call,               \* call[p]: the frame of caller p's load_data_from_library
    last                \* history: the request and outcome of the last call that returned

vars == <<DATA_LIBRARY_PATH, fs, fsChanges, call, last>>

(***************************************************************************)
(* Bounds of the model.                                                    *)
(***************************************************************************)
NumCallers == 2     \* callers that run the function concurrently (SpecConc)
MaxFsChanges == 2   \* changes another actor makes to the filesystem (SpecRace)

Callers == 1..NumCallers

(***************************************************************************)
(* Python values.                                                          *)
(***************************************************************************)
None == [none |-> TRUE]
Str(s) == [none |-> FALSE, str |-> s]

\* Python truthiness of an Optional[str]: None and "" are false.
Truthy(v) == ~v.none /\ v.str # <<>>

sep == "/"

\* posixpath.join(a, b): an absolute b discards a.
Join2(a, b) ==
    IF b # <<>> /\ Head(b) = sep THEN b
    ELSE IF a = <<>> \/ a[Len(a)] = sep THEN a \o b
    ELSE a \o <<sep>> \o b

\* os.path.join(a, *p)
RECURSIVE PathJoin(_, _)
PathJoin(a, p) ==
    IF p = <<>> THEN a ELSE PathJoin(Join2(a, Head(p)), Tail(p))

ROOT_PATH ==
    <<sep, "path", sep, "to", sep, "shared", sep, "drive", sep, "MMF1941_FALL_2025", sep>>

LibraryPath == PathJoin(ROOT_PATH, <<<<"01_shared_data_library">>>>)

\* The list with the quarterly candidate ahead of the daily one.
PossiblePathsQuarterlyFirst(lib, team_folder, file_name) ==
    << PathJoin(lib, <<team_folder, <<"raw_data">>, <<"quarterly">>, file_name>>),
       PathJoin(lib, <<team_folder, <<"raw_data">>, <<"daily">>, file_name>>),
       PathJoin(lib, <<team_folder, <<"processed_data">>, file_name>>) >>

\* The three candidates, in scan order (lines 25-29).
PossiblePaths(lib, team_folder, file_name) ==
    << PathJoin(lib, <<team_folder, <<"raw_data">>, <<"daily">>, file_name>>),
       PathJoin(lib, <<team_folder, <<"raw_data">>, <<"quarterly">>, file_name>>),
       PathJoin(lib, <<team_folder, <<"processed_data">>, file_name>>) >>

(***************************************************************************)
(* The requests the callers make.                                          *)
(***************************************************************************)
TeamFolders == { <<"teamX">> }
FileNames == { <<"f.csv">>, <<sep, "f.csv">> }
DateCols == { "Date", "date" }

Requests == [team_folder : TeamFolders, file_name : FileNames, date_col : DateCols]

\* Every path some request makes a candidate.
AllPaths ==
    UNION { { PossiblePaths(LibraryPath, r.team_folder, r.file_name)[i] : i \in 1..3 }
            : r \in Requests }

(***************************************************************************)
(* Filesystem entries and CSV files.                                       *)
(***************************************************************************)
Absent == [kind |-> "absent"]
Dir == [kind |-> "dir"]
CsvFile(header, rows) == [kind |-> "file", header |-> header, rows |-> rows]

Chars(n) ==
    CASE n = 100 -> <<"1", "0", "0">>
      [] n = 101 -> <<"1", "0", "1">>
      [] n = 7 -> <<"7">>

Day(d) == <<"2", "0", "2", "4", "-", "0", "1", "-", "0", d>>

\* Date,Close / 2024-01-01,100 / 2024-01-02,101
GoodCsv ==
    CsvFile(<<"Date", "Close">>, << <<Day("1"), Chars(100)>>, <<Day("2"), Chars(101)>> >>)
\* date,Close / 2024-01-02,101 : no column named Date
LowerCsv ==
    CsvFile(<<"date", "Close">>, << <<Day("2"), Chars(101)>> >>)
\* Date,Close / 2024-01-01,100 / 2024-01-02,101,7 : a row with too many fields
RaggedCsv ==
    CsvFile(<<"Date", "Close">>,
            << <<Day("1"), Chars(100)>>, <<Day("2"), Chars(101), Chars(7)>> >>)

\* A file whose bytes are not valid UTF-8.
Undecodable == [kind |-> "binary"]

Entries == {Absent, Dir, GoodCsv, LowerCsv, RaggedCsv, Undecodable}

\* os.path.isfile in place of os.path.exists.
ExistsIsFile(f, path) == path \in DOMAIN f /\ f[path].kind \notin {"absent", "dir"}

\* os.path.exists(path): true of files and of directories.
Exists(f, path) == path \in DOMAIN f /\ f[path].kind # "absent"


(***************************************************************************)
(* pandas.read_csv(path, index_col=date_col, parse_dates=True)             *)
(***************************************************************************)
Digits == {"0", "1", "2", "3", "4", "5", "6", "7", "8", "9"}

DigitVal(c) ==
    CASE c = "0" -> 0 [] c = "1" -> 1 [] c = "2" -> 2 [] c = "3" -> 3 [] c = "4" -> 4
      [] c = "5" -> 5 [] c = "6" -> 6 [] c = "7" -> 7 [] c = "8" -> 8 [] c = "9" -> 9

IsInt(cell) == cell # <<>> /\ \A k \in 1..Len(cell) : cell[k] \in Digits

RECURSIVE ToInt(_)
ToInt(cell) ==
    IF cell = <<>> THEN 0
    ELSE 10 * ToInt(SubSeq(cell, 1, Len(cell) - 1)) + DigitVal(cell[Len(cell)])

\* An ISO date, YYYY-MM-DD.
IsDate(cell) ==
    /\ Len(cell) = 10
    /\ cell[5] = "-" /\ cell[8] = "-"
    /\ \A k \in {1, 2, 3, 4, 6, 7, 9, 10} : cell[k] \in Digits
    /\ ToInt(SubSeq(cell, 6, 7)) \in 1..12
    /\ ToInt(SubSeq(cell, 9, 10)) \in 1..31

Timestamp(cell) ==
    [year |-> ToInt(SubSeq(cell, 1, 4)),
     month |-> ToInt(SubSeq(cell, 6, 7)),
     day |-> ToInt(SubSeq(cell, 9, 10))]

\* Position of a column name in the header, 0 when absent.
ColumnOf(header, name) ==
    IF \E k \in 1..Len(header) : header[k] = name
    THEN CHOOSE k \in 1..Len(header) :
            header[k] = name /\ \A j \in 1..(k - 1) : header[j] # name
    ELSE 0

Without(row, k) == SubSeq(row, 1, k - 1) \o SubSeq(row, k + 1, Len(row))

Raise(exc) == [ok |-> FALSE, exc |-> exc]

\* The index is converted to timestamps when every value parses as a date, a
\* column to integers when every value is one; otherwise the text is kept.
DataFrame(header, rows, k) ==
    LET idx == [r \in 1..Len(rows) |-> rows[r][k]]
        dates == \A r \in 1..Len(rows) : IsDate(idx[r])
        ints(c) == \A r \in 1..Len(rows) : IsInt(rows[r][c])
        value(r, c) == IF ints(c) THEN ToInt(rows[r][c]) ELSE rows[r][c]
    IN  [index_name |-> header[k],
         index |-> [r \in 1..Len(rows) |-> IF dates THEN Timestamp(idx[r]) ELSE idx[r]],
         columns |-> Without(header, k),
         data |-> [r \in 1..Len(rows) |->
                      Without([c \in 1..Len(header) |-> value(r, c)], k)]]

ReadCsv(entry, date_col) ==
    IF entry.kind = "absent" THEN Raise("FileNotFoundError")
    ELSE IF entry.kind = "dir" THEN Raise("IsADirectoryError")
    ELSE IF entry.kind = "binary" THEN Raise("UnicodeDecodeError")
    ELSE IF \E r \in 1..Len(entry.rows) : Len(entry.rows[r]) > Len(entry.header)
         THEN Raise("ParserError")
    ELSE IF ColumnOf(entry.header, date_col) = 0 THEN Raise("ValueError")
    ELSE [ok |-> TRUE,
          df |-> DataFrame(entry.header, entry.rows, ColumnOf(entry.header, date_col))]

\* The classes `except Exception` catches (line 47).
ExceptionClasses ==
    {"FileNotFoundError", "IsADirectoryError", "UnicodeDecodeError", "ParserError",
     "ValueError"}

CatchesNarrow(exc) == exc = "FileNotFoundError"
Catches(exc) == exc \in ExceptionClasses

(***************************************************************************)
(* The frame of one call.                                                  *)
(***************************************************************************)
IdleFrame ==
    [pc |-> "idle", team_folder |-> <<>>, file_name |-> <<>>, date_col |-> "",
     possible_paths |-> <<>>, i |-> 0, file_path_found |-> None,
     checked |-> <<>>, opened |-> <<>>, stdout |-> <<>>,
     ret |-> None, raised |-> None, epoch |-> 0]

NoLast == [set |-> FALSE]

InitWith(entries) ==
    /\ DATA_LIBRARY_PATH = LibraryPath
    /\ fs \in [AllPaths -> entries]
    /\ fsChanges = 0
    /\ call = [p \in Callers |-> IdleFrame]
    /\ last = NoLast

\* Every filesystem over the sample entries.
Init == InitWith(Entries)

\* The filesystems of the concurrent specifications: each candidate is missing
\* or is a file that parses under one date_col and not under the other.
InitSmall == InitWith({Absent, LowerCsv})

\* A candidate list kept between calls, its head consumed by the first call.
CallSticky(p, team_folder, file_name, date_col) ==
    /\ call[p].pc = "idle"
    /\ call' = [call EXCEPT ![p] =
          [IdleFrame EXCEPT
              !.pc = "scan",
              !.team_folder = team_folder,
              !.file_name = file_name,
              !.date_col = date_col,
              !.possible_paths =
                  IF last.set
                  THEN Tail(PossiblePaths(DATA_LIBRARY_PATH, team_folder, file_name))
                  ELSE PossiblePaths(DATA_LIBRARY_PATH, team_folder, file_name),
              !.i = 1,
              !.file_path_found = None,
              !.epoch = fsChanges]]
    /\ UNCHANGED <<DATA_LIBRARY_PATH, fs, fsChanges, last>>

\* Lines 11, 25-31: the call binds its arguments and builds the candidates.
Call(p, team_folder, file_name, date_col) ==
    /\ call[p].pc = "idle"
    /\ call' = [call EXCEPT ![p] =
          [IdleFrame EXCEPT
              !.pc = "scan",
              !.team_folder = team_folder,
              !.file_name = file_name,
              !.date_col = date_col,
              !.possible_paths = PossiblePaths(DATA_LIBRARY_PATH, team_folder, file_name),
              !.i = 1,
              !.file_path_found = None,
              !.epoch = fsChanges]]
    /\ UNCHANGED <<DATA_LIBRARY_PATH, fs, fsChanges, last>>

\* The loop with file_path_found a module global, shared by every frame.
CheckShared(p) ==
    LET c == call[p]
        path == c.possible_paths[c.i]
        found == Exists(fs, path)
    IN  /\ c.pc = "scan"
        /\ call' = [q \in Callers |->
              IF q = p
              THEN [c EXCEPT
                      !.checked = Append(@, [path |-> path, existed |-> found]),
                      !.file_path_found = IF found THEN Str(path) ELSE @,
                      !.i = IF found THEN @ ELSE @ + 1,
                      !.pc = IF found \/ c.i = Len(c.possible_paths)
                             THEN "resolved" ELSE "scan"]
              ELSE [call[q] EXCEPT
                      !.file_path_found = IF found THEN Str(path) ELSE @]]
        /\ UNCHANGED <<DATA_LIBRARY_PATH, fs, fsChanges, last>>

\* The loop without its break: every candidate is checked, the last hit is kept.
CheckNoBreak(p) ==
    LET c == call[p]
        path == c.possible_paths[c.i]
        found == Exists(fs, path)
    IN  /\ c.pc = "scan"
        /\ call' = [call EXCEPT ![p] =
              [c EXCEPT
                  !.checked = Append(@, [path |-> path, existed |-> found]),
                  !.file_path_found = IF found THEN Str(path) ELSE @,
                  !.i = IF c.i = Len(c.possible_paths) THEN @ ELSE @ + 1,
                  !.pc = IF c.i = Len(c.possible_paths) THEN "resolved" ELSE "scan"]]
        /\ UNCHANGED <<DATA_LIBRARY_PATH, fs, fsChanges, last>>

\* Lines 32-35: one iteration of the loop, one os.path.exists.
Check(p) ==
    LET c == call[p]
        path == c.possible_paths[c.i]
        found == Exists(fs, path)
    IN  /\ c.pc = "scan"
        /\ call' = [call EXCEPT ![p] =
              [c EXCEPT
                  !.checked = Append(@, [path |-> path, existed |-> found]),
                  !.file_path_found = IF found THEN Str(path) ELSE @,
                  !.i = IF found THEN @ ELSE @ + 1,
                  !.pc = IF found \/ c.i = Len(c.possible_paths)
                         THEN "resolved" ELSE "scan"]]
        /\ UNCHANGED <<DATA_LIBRARY_PATH, fs, fsChanges, last>>

\* Lines 37-39.
NotFound(p) ==
    LET c == call[p]
    IN  /\ c.pc = "resolved"
        /\ ~Truthy(c.file_path_found)
        /\ call' = [call EXCEPT ![p] =
              [c EXCEPT
                  !.stdout = Append(@, <<"ERROR: not found", c.file_name, c.team_folder>>),
                  !.ret = None,
                  !.pc = "done"]]
        /\ UNCHANGED <<DATA_LIBRARY_PATH, fs, fsChanges, last>>

\* A read that removes the file it has read.
LoadConsuming(p) ==
    LET c == call[p]
        path == c.file_path_found.str
        r == ReadCsv(IF path \in DOMAIN fs THEN fs[path] ELSE Absent, c.date_col)
    IN  /\ c.pc = "resolved"
        /\ Truthy(c.file_path_found)
        /\ call' = [call EXCEPT ![p] =
              [c EXCEPT !.opened = Append(@, path),
                        !.ret = IF r.ok THEN r.df ELSE None,
                        !.pc = "done"]]
        /\ fs' = IF path \in DOMAIN fs THEN [fs EXCEPT ![path] = Absent] ELSE fs
        /\ UNCHANGED <<DATA_LIBRARY_PATH, fsChanges, last>>

\* A read that falls back to the next candidate when parsing fails.
LoadFallback(p) ==
    LET c == call[p]
        path == c.file_path_found.str
        r == ReadCsv(IF path \in DOMAIN fs THEN fs[path] ELSE Absent, c.date_col)
    IN  /\ c.pc = "resolved"
        /\ Truthy(c.file_path_found)
        /\ call' = [call EXCEPT ![p] =
              IF r.ok
              THEN [c EXCEPT !.opened = Append(@, path), !.ret = r.df, !.pc = "done"]
              ELSE IF c.i < Len(c.possible_paths)
              THEN [c EXCEPT !.opened = Append(@, path), !.file_path_found = None,
                             !.i = @ + 1, !.pc = "scan"]
              ELSE [c EXCEPT !.opened = Append(@, path), !.ret = None, !.pc = "done"]]
        /\ UNCHANGED <<DATA_LIBRARY_PATH, fs, fsChanges, last>>

\* Lines 41-49.
Load(p) ==
    LET c == call[p]
        path == c.file_path_found.str
        r == ReadCsv(IF path \in DOMAIN fs THEN fs[path] ELSE Absent, c.date_col)
        loading == <<"Loading data from", path>>
    IN  /\ c.pc = "resolved"
        /\ Truthy(c.file_path_found)
        /\ call' = [call EXCEPT ![p] =
              IF r.ok
              THEN [c EXCEPT
                      !.opened = Append(@, path),
                      !.stdout = @ \o <<loading, <<"File loaded successfully.">>>>,
                      !.ret = r.df,
                      !.pc = "done"]
              ELSE IF Catches(r.exc)
              THEN [c EXCEPT
                      !.opened = Append(@, path),
                      !.stdout = @ \o <<loading, <<"An error occurred", r.exc>>>>,
                      !.ret = None,
                      !.pc = "done"]
              ELSE [c EXCEPT
                      !.opened = Append(@, path),
                      !.stdout = Append(@, loading),
                      !.raised = Str(<<r.exc>>),
                      !.pc = "done"]]
        /\ UNCHANGED <<DATA_LIBRARY_PATH, fs, fsChanges, last>>

\* The caller takes the result; the frame is gone.
Return(p) ==
    LET c == call[p]
    IN  /\ c.pc = "done"
        /\ call' = [call EXCEPT ![p] = IdleFrame]
        /\ last' = [set |-> TRUE,
                    team_folder |-> c.team_folder, file_name |-> c.file_name,
                    date_col |-> c.date_col, epoch |-> c.epoch,
                    file_path_found |-> c.file_path_found,
                    ret |-> c.ret, raised |-> c.raised]
        /\ UNCHANGED <<DATA_LIBRARY_PATH, fs, fsChanges>>

\* Another actor creates, replaces or removes one entry.
FsChange(path, entry) ==
    /\ fsChanges < MaxFsChanges
    /\ fs[path] # entry
    /\ fs' = [fs EXCEPT ![path] = entry]
    /\ fsChanges' = fsChanges + 1
    /\ UNCHANGED <<DATA_LIBRARY_PATH, call, last>>

Step(p) ==
    \/ \E r \in Requests : Call(p, r.team_folder, r.file_name, r.date_col)
    \/ Check(p)
    \/ NotFound(p)
    \/ Load(p)
    \/ Return(p)

\* One caller, nothing else touches the filesystem.
Next == Step(1)
Spec == Init /\ [][Next]_vars

\* Concurrent callers over an unchanged filesystem.
NextConc == \E p \in Callers : Step(p)
SpecConc == InitSmall /\ [][NextConc]_vars

\* One caller while another actor changes the filesystem.
NextRace ==
    \/ Step(1)
    \/ \E path \in AllPaths, entry \in {Absent, Dir, LowerCsv} : FsChange(path, entry)
SpecRace == InitSmall /\ [][NextRace]_vars

(***************************************************************************)
(* What the claims speak of.                                               *)
(***************************************************************************)
Present(path) == path \in DOMAIN fs /\ fs[path].kind # "absent"

\* The candidates of every request under the three fixed suffixes, in the order
\* daily, quarterly, processed.
ScanOrderOf ==
    [team_folder \in TeamFolders, file_name \in FileNames |->
        << PathJoin(LibraryPath, <<team_folder, <<"raw_data">>, <<"daily">>, file_name>>),
           PathJoin(LibraryPath, <<team_folder, <<"raw_data">>, <<"quarterly">>, file_name>>),
           PathJoin(LibraryPath, <<team_folder, <<"processed_data">>, file_name>>) >>]

\* Those of a frame that holds a call.
ScanOrder(c) == ScanOrderOf[c.team_folder, c.file_name]
Daily(c) == ScanOrder(c)[1]
Quarterly(c) == ScanOrder(c)[2]
Processed(c) == ScanOrder(c)[3]

\* Position in the scan order of the first candidate that exists, 0 when none does.
FirstExisting(c) ==
    LET order == ScanOrder(c)
    IN  IF Present(order[1]) THEN 1
        ELSE IF Present(order[2]) THEN 2
        ELSE IF Present(order[3]) THEN 3
        ELSE 0

Distinct(c) == Cardinality({ScanOrder(c)[k] : k \in 1..3}) = 3

Finished(p) == call[p].pc = "done"

\* C1: when a call ends, the path it resolved and read is the first candidate that
\* exists in the order daily, quarterly, processed: the daily file when it exists,
\* whatever else exists; the quarterly file when only it exists; the processed
\* file when only it exists.
C1_FirstExistingWins ==
    \A p \in Callers :
        LET c == call[p]
            k == FirstExisting(c)
        IN  Finished(p) =>
              /\ k # 0 => c.file_path_found = Str(ScanOrder(c)[k])
                          /\ c.opened = <<ScanOrder(c)[k]>>
              /\ Present(Daily(c)) => c.opened = <<Daily(c)>>
              /\ (~Present(Daily(c)) /\ Present(Quarterly(c)) /\ ~Present(Processed(c)))
                    => c.opened = <<Quarterly(c)>>
              /\ (~Present(Daily(c)) /\ ~Present(Quarterly(c)) /\ Present(Processed(c)))
                    => c.opened = <<Processed(c)>>

\* A call ended having read the daily file while the quarterly and the processed
\* file of the same name exist too.
C1_Witness ==
    LET c == call[1]
    IN  /\ Finished(1) /\ Distinct(c)
        /\ Present(Daily(c)) /\ Present(Quarterly(c)) /\ Present(Processed(c))
        /\ c.opened = <<Daily(c)>>
        /\ fs[Daily(c)] = GoodCsv /\ fs[Quarterly(c)] = LowerCsv
        /\ c.ret # None

\* The call ended on the not-found branch: its last diagnostic is the one of line 38.
ReportedNotFound(c) ==
    c.stdout # <<>> /\ c.stdout[Len(c.stdout)][1] = "ERROR: not found"

\* C2: a call made when none of the three candidates exists ends with None, raises
\* nothing and reads no file, and a call ends on the not-found branch only when
\* none of the three candidates exists.
C2_NotFoundReturnsNone ==
    \A p \in Callers :
        LET c == call[p]
        IN  /\ (Finished(p) /\ FirstExisting(c) = 0) =>
                  /\ c.ret = None /\ c.raised = None /\ c.opened = <<>>
                  /\ ReportedNotFound(c)
                  /\ c.stdout = << <<"ERROR: not found", c.file_name, c.team_folder>> >>
            /\ (Finished(p) /\ ReportedNotFound(c)) => FirstExisting(c) = 0

\* A call ended on the not-found branch after checking three distinct candidates.
C2_Witness ==
    LET c == call[1]
    IN  /\ Finished(1) /\ Distinct(c)
        /\ FirstExisting(c) = 0
        /\ Len(c.checked) = 3
        /\ c.ret = None /\ ReportedNotFound(c)

\* read_csv of the resolved path cannot produce a table.
Unparsable(path, date_col) == ~ReadCsv(fs[path], date_col).ok

\* The resolved path is a file whose header has no column named date_col.
LacksDateCol(path, date_col) ==
    /\ fs[path].kind = "file"
    /\ \A k \in 1..Len(fs[path].header) : fs[path].header[k] # date_col

\* C3: when the resolved candidate cannot be parsed (a header without date_col, a
\* malformed row, undecodable bytes, a directory) the call ends with None and no exception
\* reaches the caller; so it is when date_col names no column of the header.
C3_ParseFailureSwallowed ==
    \A p \in Callers :
        LET c == call[p]
        IN  (Finished(p) /\ Truthy(c.file_path_found)) =>
              /\ Unparsable(c.file_path_found.str, c.date_col) =>
                    c.ret = None /\ c.raised = None
              /\ LacksDateCol(c.file_path_found.str, c.date_col) =>
                    c.ret = None /\ c.raised = None

\* A call ended with None on a file whose header names the column "date" while
\* the call asked for "Date".
C3_Witness ==
    LET c == call[1]
    IN  /\ Finished(1) /\ Truthy(c.file_path_found)
        /\ fs[c.file_path_found.str] = LowerCsv /\ c.date_col = "Date"
        /\ c.opened = <<c.file_path_found.str>>
        /\ c.ret = None /\ c.raised = None

\* C4: a call reads at most one path; the checks it makes follow the scan order,
\* and a check that finds its candidate is the last one the call makes.
C4_AtMostOneRead ==
    \A p \in Callers :
        LET c == call[p]
        IN  /\ Len(c.opened) <= 1
            /\ Len(c.checked) <= Len(c.possible_paths)
            /\ \A k \in 1..Len(c.checked) :
                  /\ c.checked[k].path = c.possible_paths[k]
                  /\ c.checked[k].existed => k = Len(c.checked)
            /\ \A k \in 1..Len(c.opened) :
                  /\ c.checked # <<>>
                  /\ c.checked[Len(c.checked)].existed
                  /\ c.opened[k] = c.checked[Len(c.checked)].path

\* A call ended having checked and read the daily file alone while the quarterly
\* and the processed file exist.
C4_Witness ==
    LET c == call[1]
    IN  /\ Finished(1) /\ Distinct(c)
        /\ Present(Quarterly(c)) /\ Present(Processed(c))
        /\ c.checked = << [path |-> Daily(c), existed |-> TRUE] >>
        /\ c.opened = <<Daily(c)>>

\* C9: when the first existing candidate cannot be parsed the call ends with None
\* having read that candidate alone and checked none after it, whatever the later
\* candidates hold; and every call that produces no table ends with the same None.
C9_NoFallback ==
    \A p \in Callers :
        LET c == call[p]
            k == FirstExisting(c)
        IN  Finished(p) =>
              /\ (k # 0 /\ Unparsable(ScanOrder(c)[k], c.date_col)) =>
                    /\ c.ret = None
                    /\ c.opened = <<ScanOrder(c)[k]>>
                    /\ Len(c.checked) = k
              /\ (k = 0 \/ Unparsable(ScanOrder(c)[IF k = 0 THEN 1 ELSE k], c.date_col))
                    => c.ret = None
              /\ c.ret = None =>
                    (k = 0 \/ Unparsable(ScanOrder(c)[IF k = 0 THEN 1 ELSE k], c.date_col))

\* A call ended with None on an unparsable daily file while the quarterly file
\* exists and parses under the call's date_col.
C9_Witness ==
    LET c == call[1]
    IN  /\ Finished(1) /\ Distinct(c)
        /\ Present(Daily(c)) /\ Unparsable(Daily(c), c.date_col)
        /\ Present(Quarterly(c)) /\ ~Unparsable(Quarterly(c), c.date_col)
        /\ c.ret = None /\ c.opened = <<Daily(c)>>

\* The path the specification builds for one suffix: the library root, the team
\* folder, the suffix and the file name, each after a separator.
Rooted(c, suffix) ==
    LibraryPath \o <<sep>> \o c.team_folder \o <<sep>> \o suffix \o <<sep>> \o c.file_name

RootedCandidates(c) ==
    << Rooted(c, <<"raw_data", sep, "daily">>),
       Rooted(c, <<"raw_data", sep, "quarterly">>),
       Rooted(c, <<"processed_data">>) >>

\* C5: whatever strings team_folder and file_name are, every path a call checks
\* or reads is one of the three candidates rooted at the library path and the
\* team folder, the k-th check being of the k-th of them.
C5_OnlyLibraryPaths ==
    \A p \in Callers :
        LET c == call[p]
        IN  /\ \A k \in 1..Len(c.checked) : c.checked[k].path = RootedCandidates(c)[k]
            /\ \A k \in 1..Len(c.opened) :
                  c.opened[k] \in {RootedCandidates(c)[j] : j \in 1..3}

\* The frame and the last returned call were given the same arguments, and the
\* filesystem has not changed since the earlier call began.
SameCallAgain(c) ==
    /\ last.set
    /\ last.team_folder = c.team_folder
    /\ last.file_name = c.file_name
    /\ last.date_col = c.date_col
    /\ last.epoch = fsChanges

\* C6: a call that ends after a call with the same arguments, the filesystem
\* unchanged since that one began, resolved the same candidate and ends with an
\* equal result: an equal table, or None both times.
C6_Idempotent ==
    \A p \in Callers :
        LET c == call[p]
        IN  (Finished(p) /\ SameCallAgain(c)) =>
              /\ c.file_path_found = last.file_path_found
              /\ c.ret = last.ret
              /\ c.raised = last.raised

\* The second of two calls with the same arguments ended with the same table,
\* read from the quarterly file.
C6_Witness ==
    LET c == call[1]
    IN  /\ Finished(1) /\ SameCallAgain(c) /\ Distinct(c)
        /\ c.ret # None /\ c.ret = last.ret
        /\ c.opened = <<Quarterly(c)>>
        /\ Len(c.ret.index) = 2

\* C7: no step of a call changes the filesystem or DATA_LIBRARY_PATH.
C7_NoWrites ==
    [][fs' = fs /\ DATA_LIBRARY_PATH' = DATA_LIBRARY_PATH]_vars

\* A call has ended with a table after another had ended not finding its file:
\* every entry is as it was, and so is the library path.
C7_Witness ==
    LET c == call[1]
    IN  /\ Finished(1) /\ c.ret # None /\ c.opened # <<>>
        /\ last.set /\ last.file_path_found = None
        /\ fs[c.opened[1]] = GoodCsv
        /\ DATA_LIBRARY_PATH = LibraryPath

\* What a call with the arguments of frame c returns when it runs alone.
Alone(c) ==
    LET k == FirstExisting(c)
        first == ScanOrder(c)[k]
        r == ReadCsv(fs[first], c.date_col)
    IN  IF k = 0 THEN [file_path_found |-> None, ret |-> None, opened |-> <<>>]
        ELSE [file_path_found |-> Str(first),
              ret |-> IF r.ok THEN r.df ELSE None,
              opened |-> <<first>>]

\* The part of a frame a call that has started has reached, as it would be alone.
AloneSoFar(c) ==
    LET order == ScanOrder(c)
    IN  /\ \A k \in 1..Len(c.checked) :
              /\ c.checked[k].path = order[k]
              /\ c.checked[k].existed = Present(order[k])
        /\ Truthy(c.file_path_found) => c.file_path_found = Alone(c).file_path_found

\* C8: with callers running concurrently over an unchanged filesystem, every call
\* ends with the result it has when run alone with its own arguments, and at every
\* moment the path a call has resolved is the one it resolves alone.
C8_ConcurrentAsAlone ==
    \A p \in Callers :
        LET c == call[p]
            alone == Alone(c)
        IN  /\ c.pc # "idle" => AloneSoFar(c)
            /\ Finished(p) =>
                  /\ c.file_path_found = alone.file_path_found
                  /\ c.ret = alone.ret
                  /\ c.opened = alone.opened
                  /\ c.raised = None

\* Two callers have both ended, one with a table from the daily file and the
\* other, asking for another file name, with None.
C8_Witness ==
    /\ Finished(1) /\ Finished(2)
    /\ call[1].file_name # call[2].file_name
    /\ call[1].ret # None /\ call[1].opened = <<Daily(call[1])>>
    /\ call[2].ret = None /\ call[2].opened = <<>>

\* C10: while another actor changes the filesystem a call raises nothing, ends
\* with None when the file it resolved is gone by the time it is read, never
\* checks a candidate again, and does not resolve a path it has checked and found
\* missing.
C10_RaceStillFails ==
    \A p \in Callers :
        LET c == call[p]
        IN  /\ c.raised = None
            /\ (Finished(p) /\ c.stdout[Len(c.stdout)] = <<"An error occurred", "FileNotFoundError">>)
                  => c.ret = None
            /\ Len(c.checked) <= 3
            /\ \A k \in 1..Len(c.checked) : c.checked[k].existed => k = Len(c.checked)
            /\ \A k \in 1..Len(c.checked) :
                  ~c.checked[k].existed => c.file_path_found # Str(c.checked[k].path)

\* The same statement for the calls whose three candidates are distinct paths
\* (a relative file_name): it holds of these.
C10_DistinctCandidates ==
    \A p \in Callers :
        LET c == call[p]
        IN  (c.pc # "idle" /\ Distinct(c)) =>
              /\ c.raised = None
              /\ (Finished(p) /\ c.stdout[Len(c.stdout)] = <<"An error occurred", "FileNotFoundError">>)
                    => c.ret = None
              /\ Len(c.checked) <= 3
              /\ \A k \in 1..Len(c.checked) : c.checked[k].existed => k = Len(c.checked)
              /\ \A k \in 1..Len(c.checked) :
                    ~c.checked[k].existed => c.file_path_found # Str(c.checked[k].path)

=============================================================================
